---- MODULE Spec2Model ----
(***************************************************************************)
(* Model of the python-demo package: models.py, user_service.py,           *)
(* order_service.py and utils.is_valid_id.                                 *)
(*                                                                         *)
(* Python values are tagged records.  A str is a sequence of characters,   *)
(* so that emptiness ("not email") and membership ('@' in email) are       *)
(* computed as Python computes them.  A float is either a number counted   *)
(* in hundredths (999.99 is 99999) or NaN, for which every ordered         *)
(* comparison is false.  Every service call builds its list of records     *)
(* anew; the variables users and orders hold the list objects the latest   *)
(* call built, as that call left them when it returned.                    *)
(***************************************************************************)
EXTENDS Integers, Sequences, FiniteSets, TLC

VARIABLES
    users,   \* User objects built by the latest user-service call
    orders,  \* Order objects built by the latest order-service call
    op,      \* name of the latest call ("init" before any call)
    args,    \* its arguments
    ret,     \* the value it returned (None when it raised)
    err,     \* the exception it raised, NoError when it returned
    prev     \* summary of the call before the latest one

vars == <<users, orders, op, args, ret, err, prev>>

----------------------------------------------------------------------------
(* Bounds of the explored inputs *)

MaxId == 2

Ids == (0 .. MaxId) \cup {999}

----------------------------------------------------------------------------
(* Python values *)

None == [tag |-> "None"]

Str(s) == [tag |-> "str", s |-> s]

PyInt(n) == [tag |-> "int", n |-> n]

Bool(b) == [tag |-> "bool", b |-> b]

Float(c) == [tag |-> "float", nan |-> FALSE, c |-> c]

NaN == [tag |-> "float", nan |-> TRUE, c |-> 0]

List(l) == [tag |-> "list", l |-> l]

NoError == "NoError"

\* truth value of a Python object: None and the empty str are false
Truthy(v) ==
    CASE v.tag = "None" -> FALSE
      [] v.tag = "str"  -> Len(v.s) > 0
      [] v.tag = "bool" -> v.b
      [] OTHER          -> TRUE

\* c in s, for a one-character c
Contains(v, c) == \E i \in 1 .. Len(v.s) : v.s[i] = c

\* int(b) of a bool: True is 1, False is 0
IntOfBool(b) == IF b THEN 1 ELSE 0

\* amount <= 0 and amount > 0 on a float; both false on NaN
FloatLE0(a) == ~a.nan /\ a.c <= 0

FloatGT0(a) == ~a.nan /\ a.c > 0

----------------------------------------------------------------------------
(* models.py *)

User(id, name, email) ==
    [tag |-> "User", id |-> id, name |-> name, email |-> email]

Order(id, user_id, product, amount) ==
    [tag |-> "Order", id |-> id, user_id |-> user_id, product |-> product,
     amount |-> amount, status |-> "pending"]

----------------------------------------------------------------------------
(* Outcome of a call: what it returned or raised, and the list it built *)

Return(v, built, l) ==
    [raised |-> NoError, value |-> v, built |-> built, list |-> l]

Raise(e) ==
    [raised |-> e, value |-> None, built |-> FALSE, list |-> <<>>]

\* index of the first record of l whose id is id, 0 when there is none
FirstWithId(l, id) ==
    IF \E i \in 1 .. Len(l) : l[i].id = id
    THEN CHOOSE i \in 1 .. Len(l) :
            /\ l[i].id = id
            /\ \A j \in 1 .. (i - 1) : l[j].id # id
    ELSE 0

----------------------------------------------------------------------------
(* user_service.py *)

Alice == Str(<<"A", "l", "i", "c", "e">>)

AliceEmail ==
    Str(<<"a", "l", "i", "c", "e", "@", "e", "x", "a", "m", "p", "l", "e",
          ".", "c", "o", "m">>)

Bob == Str(<<"B", "o", "b">>)

BobEmail ==
    Str(<<"b", "o", "b", "@", "e", "x", "a", "m", "p", "l", "e",
          ".", "c", "o", "m">>)

SeedUsers == <<User(1, Alice, AliceEmail), User(2, Bob, BobEmail)>>

\* a module-level list that is built once and then reused
get_all_users_cached == IF users = <<>> THEN SeedUsers ELSE users

get_all_users == SeedUsers

\* a lookup that raises when the id is not found
get_user_by_id_raising(user_id) ==
    LET us == get_all_users
        i  == FirstWithId(us, user_id)
    IN  IF i = 0 THEN Raise("KeyError")
        ELSE [raised |-> NoError, value |-> us[i], built |-> TRUE,
              list |-> us, idx |-> i]

get_user_by_id(user_id) ==
    LET us == get_all_users
        i  == FirstWithId(us, user_id)
    IN  [raised |-> NoError,
         value  |-> IF i = 0 THEN None ELSE us[i],
         built  |-> TRUE,
         list   |-> us,
         idx    |-> i]

\* validation with "and" in place of "or"
create_user_and(name, email) ==
    IF ~Truthy(email) /\ ~Contains(email, "@")
    THEN Raise("ValueError")
    ELSE LET us == get_all_users
         IN  Return(User(Len(us) + 1, name, email), TRUE, us)

\* the new id taken as the length of the list
create_user_len(name, email) ==
    IF ~Truthy(email) \/ ~Contains(email, "@")
    THEN Raise("ValueError")
    ELSE LET us == get_all_users
         IN  Return(User(Len(us), name, email), TRUE, us)

create_user(name, email) ==
    IF ~Truthy(email) \/ ~Contains(email, "@")
    THEN Raise("ValueError")
    ELSE LET us == get_all_users
         IN  Return(User(Len(us) + 1, name, email), TRUE, us)

\* "is not None" tests in place of the truth tests
update_user_notnone(user_id, name, email) ==
    LET r == get_user_by_id(user_id)
    IN  IF r.raised # NoError THEN Raise(r.raised)
        ELSE IF ~Truthy(r.value) THEN Return(None, TRUE, r.list)
        ELSE LET u1 == IF name # None
                       THEN [r.value EXCEPT !.name = name] ELSE r.value
                 u2 == IF email # None
                       THEN [u1 EXCEPT !.email = email] ELSE u1
             IN  Return(u2, TRUE, [r.list EXCEPT ![r.idx] = u2])

update_user(user_id, name, email) ==
    LET r == get_user_by_id(user_id)
    IN  IF r.raised # NoError THEN Raise(r.raised)
        ELSE IF ~Truthy(r.value) THEN Return(None, TRUE, r.list)
        ELSE LET u1 == IF Truthy(name)
                       THEN [r.value EXCEPT !.name = name] ELSE r.value
                 u2 == IF Truthy(email)
                       THEN [u1 EXCEPT !.email = email] ELSE u1
             IN  Return(u2, TRUE, [r.list EXCEPT ![r.idx] = u2])

\* the test inverted
delete_user_inverted(user_id) ==
    LET r == get_user_by_id(user_id)
    IN  IF r.raised # NoError THEN Raise(r.raised)
        ELSE Return(Bool(r.value = None), TRUE, r.list)

delete_user(user_id) ==
    LET r == get_user_by_id(user_id)
    IN  IF r.raised # NoError THEN Raise(r.raised)
        ELSE Return(Bool(r.value # None), TRUE, r.list)

----------------------------------------------------------------------------
(* order_service.py *)

SeedOrders ==
    <<Order(1, 1, "Laptop", Float(99999)), Order(2, 2, "Phone", Float(69999))>>

\* a module-level list that is built once and then reused
get_all_orders_cached == IF orders = <<>> THEN SeedOrders ELSE orders

get_all_orders == SeedOrders

get_order_by_id(order_id) ==
    LET os == get_all_orders
        i  == FirstWithId(os, order_id)
    IN  [raised |-> NoError,
         value  |-> IF i = 0 THEN None ELSE os[i],
         built  |-> TRUE,
         list   |-> os,
         idx    |-> i]

\* "<" in place of "<="
create_order_lt(user_id, product, amount) ==
    IF ~amount.nan /\ amount.c < 0
    THEN Raise("ValueError")
    ELSE LET os == get_all_orders
         IN  Return(Order(Len(os) + 1, user_id, product, amount), TRUE, os)

create_order(user_id, product, amount) ==
    IF FloatLE0(amount)
    THEN Raise("ValueError")
    ELSE LET os == get_all_orders
         IN  Return(Order(Len(os) + 1, user_id, product, amount), TRUE, os)

cancel_order(order_id) ==
    LET r == get_order_by_id(order_id)
    IN  IF r.raised # NoError THEN Raise(r.raised)
        ELSE IF ~Truthy(r.value) THEN Return(Bool(FALSE), TRUE, r.list)
        ELSE Return(Bool(TRUE), TRUE,
                    [r.list EXCEPT ![r.idx].status = "cancelled"])

----------------------------------------------------------------------------
(* utils.py *)

\* isinstance(v, int): bool is a subclass of int
IsInstanceInt(v) == v.tag \in {"int", "bool"}

is_valid_id(id_value) ==
    /\ IsInstanceInt(id_value)
    /\ (IF id_value.tag = "bool" THEN IntOfBool(id_value.b) ELSE id_value.n) > 0

----------------------------------------------------------------------------
(* Inputs *)

Names == {Str(<<>>), Str(<<"C", "a", "r", "l">>)}

Emails ==
    {Str(<<>>), Str(<<"b", "a", "d">>), Str(<<"c", "@", "x", ".", "c">>)}

Products == {"Tablet"}

Amounts == {NaN, Float(-500), Float(0), Float(1), Float(500)}

AnyValues ==
    {PyInt(n) : n \in (-1 .. MaxId) \cup {5}}
        \cup {Float(500), NaN, Bool(TRUE), Bool(FALSE), None, Str(<<"5">>)}

----------------------------------------------------------------------------
(* Calls *)

\* the summary kept of a call once the next one is made: its name, what it
\* raised, and the id it was about (the id argument of a lookup, the id of
\* the record a create returned, 0 when there is none)
Summary ==
    [op  |-> op,
     err |-> err,
     id  |-> IF op \in {"create_user", "create_order"}
             THEN (IF err = NoError THEN ret.id ELSE 0)
             ELSE IF op \in {"get_user_by_id", "update_user", "delete_user",
                             "get_order_by_id", "cancel_order"}
                  THEN args[1]
                  ELSE 0,
     changed |-> (op = "update_user" /\ err = NoError /\ ret # None
                    /\ ret \notin {SeedUsers[i] : i \in 1 .. Len(SeedUsers)})
                 \/ (op = "cancel_order" /\ ret = Bool(TRUE))]

GetAllUsers ==
    LET out == Return(List(get_all_users), TRUE, get_all_users)
    IN  /\ op' = "get_all_users"
        /\ args' = <<>>
        /\ ret' = out.value
        /\ err' = out.raised
        /\ users' = (IF out.built THEN out.list ELSE users)
        /\ prev' = Summary
        /\ UNCHANGED orders

GetUserById ==
    \E id \in Ids :
        LET out == get_user_by_id(id)
        IN  /\ op' = "get_user_by_id"
            /\ args' = <<id>>
            /\ ret' = out.value
            /\ err' = out.raised
            /\ users' = (IF out.built THEN out.list ELSE users)
            /\ prev' = Summary
            /\ UNCHANGED orders

CreateUser ==
    \E name \in Names, email \in Emails :
        LET out == create_user(name, email)
        IN  /\ op' = "create_user"
            /\ args' = <<name, email>>
            /\ ret' = out.value
            /\ err' = out.raised
            /\ users' = (IF out.built THEN out.list ELSE users)
            /\ prev' = Summary
            /\ UNCHANGED orders

UpdateUser ==
    \E id \in Ids, name \in Names \cup {None}, email \in Emails \cup {None} :
        LET out == update_user(id, name, email)
        IN  /\ op' = "update_user"
            /\ args' = <<id, name, email>>
            /\ ret' = out.value
            /\ err' = out.raised
            /\ users' = (IF out.built THEN out.list ELSE users)
            /\ prev' = Summary
            /\ UNCHANGED orders

DeleteUser ==
    \E id \in Ids :
        LET out == delete_user(id)
        IN  /\ op' = "delete_user"
            /\ args' = <<id>>
            /\ ret' = out.value
            /\ err' = out.raised
            /\ users' = (IF out.built THEN out.list ELSE users)
            /\ prev' = Summary
            /\ UNCHANGED orders

GetAllOrders ==
    LET out == Return(List(get_all_orders), TRUE, get_all_orders)
    IN  /\ op' = "get_all_orders"
        /\ args' = <<>>
        /\ ret' = out.value
        /\ err' = out.raised
        /\ orders' = (IF out.built THEN out.list ELSE orders)
        /\ prev' = Summary
        /\ UNCHANGED users

GetOrderById ==
    \E id \in Ids :
        LET out == get_order_by_id(id)
        IN  /\ op' = "get_order_by_id"
            /\ args' = <<id>>
            /\ ret' = out.value
            /\ err' = out.raised
            /\ orders' = (IF out.built THEN out.list ELSE orders)
            /\ prev' = Summary
            /\ UNCHANGED users

CreateOrder ==
    \E uid \in Ids, product \in Products, amount \in Amounts :
        LET out == create_order(uid, product, amount)
        IN  /\ op' = "create_order"
            /\ args' = <<uid, product, amount>>
            /\ ret' = out.value
            /\ err' = out.raised
            /\ orders' = (IF out.built THEN out.list ELSE orders)
            /\ prev' = Summary
            /\ UNCHANGED users

CancelOrder ==
    \E id \in Ids :
        LET out == cancel_order(id)
        IN  /\ op' = "cancel_order"
            /\ args' = <<id>>
            /\ ret' = out.value
            /\ err' = out.raised
            /\ orders' = (IF out.built THEN out.list ELSE orders)
            /\ prev' = Summary
            /\ UNCHANGED users

IsValidId ==
    \E v \in AnyValues :
        /\ op' = "is_valid_id"
        /\ args' = <<v>>
        /\ ret' = Bool(is_valid_id(v))
        /\ err' = NoError
        /\ prev' = Summary
        /\ UNCHANGED <<users, orders>>

Init ==
    /\ users = <<>>
    /\ orders = <<>>
    /\ op = "init"
    /\ args = <<>>
    /\ ret = None
    /\ err = NoError
    /\ prev = [op |-> "none", err |-> NoError, id |-> 0, changed |-> FALSE]

Next ==
    \/ GetAllUsers
    \/ GetUserById
    \/ CreateUser
    \/ UpdateUser
    \/ DeleteUser
    \/ GetAllOrders
    \/ GetOrderById
    \/ CreateOrder
    \/ CancelOrder
    \/ IsValidId

Spec == Init /\ [][Next]_vars

----------------------------------------------------------------------------
(* Properties *)

SeededIds == {1, 2}

Succeeded == err = NoError

\* every character of the str v differs from c
Lacks(v, c) == \A i \in DOMAIN v.s : v.s[i] # c

\* the argument v of update_user was supplied and is not the empty str
Supplied(v) == v # None /\ v.s # <<>>

\* C1: after any sequence of calls, get_order_by_id on a seeded id returns
\* the seeded order: status "pending" and the original user_id, product and
\* amount; a cancel_order that returned True before it changes nothing.
C1_CancelNotPersisted ==
    (op = "get_order_by_id" /\ args[1] \in SeededIds) =>
        /\ Succeeded
        /\ ret.tag = "Order"
        /\ ret.id = args[1]
        /\ ret.status = "pending"
        /\ ret.user_id = args[1]
        /\ ret.product = (IF args[1] = 1 THEN "Laptop" ELSE "Phone")
        /\ ret.amount = (IF args[1] = 1 THEN Float(99999) ELSE Float(69999))

C1_Witness ==
    /\ prev.op = "cancel_order"
    /\ prev.changed
    /\ op = "get_order_by_id"
    /\ args[1] = prev.id
    /\ ret.status = "pending"

\* C2: create_user raises ValueError exactly when the email is empty or has
\* no "@"; otherwise it returns a User with the given name and email, the
\* empty name included.
C2_CreateUserValidation ==
    op = "create_user" =>
        /\ (err = "ValueError") <=> (args[2].s = <<>> \/ Lacks(args[2], "@"))
        /\ (err # "ValueError") =>
              /\ Succeeded
              /\ ret.tag = "User"
              /\ ret.name = args[1]
              /\ ret.email = args[2]

C2_Witness ==
    /\ op = "create_user"
    /\ args[1] = Str(<<>>)
    /\ Succeeded
    /\ ret.tag = "User"
    /\ ret.name = Str(<<>>)

\* C3: a successful create_user or create_order returns id 3 whatever calls
\* came before, so two successive successful creates return the same id,
\* and the listings keep exactly the two records with ids 1 and 2.
C3_CreatedIdIsThree ==
    /\ (op \in {"create_user", "create_order"} /\ Succeeded) =>
          /\ ret.id = 3
          /\ (prev.op = op /\ prev.err = NoError) => prev.id = ret.id
    /\ (op \in {"get_all_users", "get_all_orders"}) =>
          /\ Succeeded
          /\ Len(ret.l) = 2
          /\ ret.l[1].id = 1
          /\ ret.l[2].id = 2

C3_Witness ==
    /\ prev.op = "create_user"
    /\ prev.err = NoError
    /\ prev.id = 3
    /\ op = "create_user"
    /\ Succeeded
    /\ ret.id = 3

\* C4: create_order raises ValueError exactly when amount <= 0; for every
\* amount > 0 it returns a pending Order with the given user_id, product
\* and amount, whether or not a user with that id is seeded.
C4_CreateOrderValidation ==
    op = "create_order" =>
        /\ (err = "ValueError") <=> (~args[3].nan /\ args[3].c <= 0)
        /\ (~args[3].nan /\ args[3].c > 0) =>
              /\ Succeeded
              /\ ret.tag = "Order"
              /\ ret.status = "pending"
              /\ ret.user_id = args[1]
              /\ ret.product = args[2]
              /\ ret.amount = args[3]

C4_Witness ==
    /\ op = "create_order"
    /\ args[1] \notin SeededIds
    /\ Succeeded
    /\ ret.status = "pending"
    /\ ret.user_id = args[1]

\* C5: update_user returns None for an id that is not seeded; otherwise the
\* seeded user with name and email replaced only by supplied non-empty
\* arguments, id unchanged; a later get_user_by_id still returns the seeded
\* name and email.
C5_UpdateUserFrame ==
    /\ op = "update_user" =>
          /\ Succeeded
          /\ (args[1] \notin SeededIds) => ret = None
          /\ (args[1] \in SeededIds) =>
                /\ ret.tag = "User"
                /\ ret.id = args[1]
                /\ ret.name = (IF Supplied(args[2]) THEN args[2]
                               ELSE IF args[1] = 1 THEN Alice ELSE Bob)
                /\ ret.email = (IF Supplied(args[3]) THEN args[3]
                                ELSE IF args[1] = 1 THEN AliceEmail
                                ELSE BobEmail)
    /\ (op = "get_user_by_id" /\ args[1] \in SeededIds) =>
          /\ ret.name = (IF args[1] = 1 THEN Alice ELSE Bob)
          /\ ret.email = (IF args[1] = 1 THEN AliceEmail ELSE BobEmail)

C5_Witness ==
    /\ prev.op = "update_user"
    /\ prev.changed
    /\ op = "get_user_by_id"
    /\ args[1] = prev.id
    /\ ret.tag = "User"

\* C6: delete_user returns True exactly for the seeded ids and removes
\* nothing: the listing keeps both users, get_user_by_id still finds the
\* user, and a repeated delete_user still returns True.
C6_DeleteUserRemovesNothing ==
    /\ op = "delete_user" =>
          /\ Succeeded
          /\ ret = Bool(args[1] \in SeededIds)
    /\ op = "get_all_users" =>
          /\ Len(ret.l) = 2
          /\ {ret.l[i].id : i \in 1 .. 2} = SeededIds
    /\ (op = "get_user_by_id" /\ args[1] \in SeededIds) =>
          /\ ret.tag = "User"
          /\ ret.id = args[1]

C6_Witness ==
    /\ prev.op = "delete_user"
    /\ prev.id \in SeededIds
    /\ op = "delete_user"
    /\ args[1] = prev.id
    /\ ret = Bool(TRUE)

\* C7: get_user_by_id and get_order_by_id return the seeded record with the
\* given id when there is one and None otherwise, and no lookup, update,
\* delete or cancel raises for an id that is not found.
C7_NotFoundIsNoError ==
    /\ op \in {"get_user_by_id", "update_user", "delete_user",
               "get_order_by_id", "cancel_order"} => Succeeded
    /\ op = "get_user_by_id" =>
          IF args[1] \in SeededIds
          THEN ret = SeedUsers[args[1]]
          ELSE ret = None
    /\ op = "get_order_by_id" =>
          IF args[1] \in SeededIds
          THEN ret = SeedOrders[args[1]]
          ELSE ret = None
    /\ (op = "get_user_by_id" /\ args[1] = 1) =>
          ret.name = Alice /\ ret.email = AliceEmail
    /\ (op = "get_order_by_id" /\ args[1] = 2) =>
          /\ ret.product = "Phone"
          /\ ret.amount = Float(69999)
          /\ ret.status = "pending"
    /\ (op \in {"update_user", "delete_user", "cancel_order"}
          /\ args[1] \notin SeededIds) => ret \in {None, Bool(FALSE)}

C7_Witness ==
    /\ op = "get_user_by_id"
    /\ args[1] = 999
    /\ Succeeded
    /\ ret = None

\* C8: is_valid_id(v) is True if and only if v is an integer greater than
\* zero; a value of any other kind, a bool included, gives False.
C8_IsValidIdIffPositiveInteger ==
    op = "is_valid_id" =>
        (ret = Bool(TRUE)) <=> (args[1].tag = "int" /\ args[1].n > 0)

\* C9: every User a user-service call returns has an email that contains
\* "@".
C9_ReturnedEmailHasAt ==
    (op \in {"get_all_users", "get_user_by_id", "create_user", "update_user"}
        /\ Succeeded) =>
        /\ ret.tag = "User" => ~Lacks(ret.email, "@")
        /\ ret.tag = "list" =>
              \A i \in 1 .. Len(ret.l) : ~Lacks(ret.l[i].email, "@")

\* C10: every Order the order service returns or holds has status "pending"
\* or "cancelled" and amount > 0; "cancelled" is found only on the objects
\* cancel_order built, never on a returned order; cancel_order on a seeded
\* id returns True however often it was called before.
C10_OrderSafety ==
    /\ \A i \in 1 .. Len(orders) :
          /\ orders[i].status \in {"pending", "cancelled"}
          /\ FloatGT0(orders[i].amount)
    /\ (op \in {"get_all_orders", "get_order_by_id", "create_order"}
          /\ Succeeded) =>
          /\ \A i \in 1 .. Len(orders) : orders[i].status = "pending"
          /\ ret.tag = "Order" =>
                ret.status = "pending" /\ FloatGT0(ret.amount)
          /\ ret.tag = "list" =>
                \A i \in 1 .. Len(ret.l) :
                    ret.l[i].status = "pending" /\ FloatGT0(ret.l[i].amount)
    /\ (op = "cancel_order" /\ args[1] \in SeededIds) =>
          Succeeded /\ ret = Bool(TRUE)

====
